---- MODULE Spec2Model ----
(***************************************************************************)
(* Verification model of src/zlibrary_login.py (the interactive login      *)
(* flow) together with the Lock Store contract of spec.md section 4.1.     *)
(*                                                                         *)
(* Spec      : NumProcs operating-system processes each run main() of      *)
(*             zlibrary_login.py concurrently on one host.  They share the *)
(*             browser profile directory and ~/.zlibrary/storage_state.json*)
(* LockSpec  : the same processes call acquire/release of the Lock Store.  *)
(*             The Lock Store is not part of src/; it is modelled from the *)
(*             contract in spec.md section 4.1.                            *)
(*                                                                         *)
(* Time is counted in checkpoint intervals (one tick = one interval) while *)
(* a process is blocked in input().                                        *)
(***************************************************************************)
EXTENDS Integers, Sequences, FiniteSets, TLC

\* ---------------------------------------------------------------- bounds
NumProcs == 2
MaxElapsed == 2

Procs == 1..NumProcs

\* ------------------------------------------------- names used by the spec
BrowserLock == "__browser__"
Domain == "z-library.sk"
LockNames == {BrowserLock, Domain}
\* per-attempt timeout of the interactive session, in ticks (scaled)
TimeoutTicks == 1
\* maximum number of interactive attempts of one run
MaxAttempts == 3

VARIABLES
    pc,           \* pc[p]: position of process p in zlibrary_login()/main()
    browserOpen,  \* browserOpen[p]: p has a persistent context on the profile
    pending,      \* pending[p]: exception in flight while the finally runs
    elapsed,      \* elapsed[p]: ticks p has been blocked in input()
    log,          \* log[p]: the externally visible steps p performed, in order
    exitCode,     \* exitCode[p]: exit status of the process, -1 while running
    sessionFile,  \* content of storage_state.json
    skipMarkers,  \* the skip directory: domains with a skip marker
    markers,      \* the locks directory: set of marker records
    last,         \* the most recent Lock Store call and what it returned
    wins,         \* wins[n]: acquires of n that returned true since the last release of n
    lost          \* lost[p]: names for which an acquire by p returned false

loginVars == <<pc, browserOpen, pending, elapsed, log, exitCode, sessionFile, skipMarkers>>
lockVars == <<markers, last, wins, lost>>
vars == <<pc, browserOpen, pending, elapsed, log, exitCode, sessionFile, skipMarkers,
          markers, last, wins, lost>>

\* ------------------------------------------------------------ helpers
Has(p, e) == \E i \in 1..Len(log[p]) : log[p][i] = e
Count(p, e) == Cardinality({i \in 1..Len(log[p]) : log[p][i] = e})
Pos(p, e) == CHOOSE i \in 1..Len(log[p]) : log[p][i] = e
Before(p, a, b) == Has(p, a) /\ Has(p, b) /\ Pos(p, a) < Pos(p, b)

Held(n) == \E m \in markers : m.name = n
Holder(n) == {m.owner : m \in {k \in markers : k.name = n}}

Complete(w) == [state |-> "complete", writer |-> w]
Partial(w) == [state |-> "partial", writer |-> w]
Absent == [state |-> "absent", writer |-> 0]

\* ------------------------------------------------------------ Init
Init ==
    /\ pc = [p \in Procs |-> "start"]
    /\ browserOpen = [p \in Procs |-> FALSE]
    /\ pending = [p \in Procs |-> "none"]
    /\ elapsed = [p \in Procs |-> 0]
    /\ log = [p \in Procs |-> <<>>]
    /\ exitCode = [p \in Procs |-> -1]
    /\ sessionFile \in {Absent, Complete(0)}
    /\ skipMarkers = {}
    /\ markers = {}
    /\ last = [op |-> "none", proc |-> 0, name |-> "", existed |-> FALSE, ret |-> FALSE]
    /\ wins = [n \in LockNames |-> 0]
    /\ lost = [p \in Procs |-> {}]

\* ------------------------------------------------------------ login flow
\* The process ends: the with-block of sync_playwright() is left (which stops
\* the driver and with it any browser it still runs) and the interpreter exits.
Exit(p, code) ==
    /\ pc' = [pc EXCEPT ![p] = "done"]
    /\ exitCode' = [exitCode EXCEPT ![p] = code]
    /\ browserOpen' = [browserOpen EXCEPT ![p] = FALSE]

Goes(p, to) == pc' = [pc EXCEPT ![p] = to]
Logs(p, e) == log' = [log EXCEPT ![p] = Append(@, e)]

\* lines 23-38: config dir is created and chmod-ed, the banner is printed
Setup(p) ==
    /\ pc[p] = "start"
    /\ Goes(p, "launch")
    /\ UNCHANGED <<browserOpen, pending, elapsed, log, exitCode, sessionFile, skipMarkers>>
    /\ UNCHANGED lockVars

\* lines 24-25: mkdir or chmod raises; nothing catches it
SetupFail(p) ==
    /\ pc[p] = "start"
    /\ Exit(p, 1)
    /\ UNCHANGED <<pending, elapsed, log, sessionFile, skipMarkers>>
    /\ UNCHANGED lockVars

\* lines 40-46: launch_persistent_context on the shared profile returns.
\* Nothing in the code consults the locks directory or another process's
\* state before the call, so the action has no guard beyond the position.
Launch(p) ==
    /\ pc[p] = "launch"
    /\ browserOpen' = [browserOpen EXCEPT ![p] = TRUE]
    /\ Logs(p, "launch")
    /\ Goes(p, "getpage")
    /\ UNCHANGED <<pending, elapsed, exitCode, sessionFile, skipMarkers>>
    /\ UNCHANGED lockVars

\* lines 40-46: the launch raises; nothing catches it
LaunchFail(p) ==
    /\ pc[p] = "launch"
    /\ Exit(p, 1)
    /\ UNCHANGED <<pending, elapsed, log, sessionFile, skipMarkers>>
    /\ UNCHANGED lockVars

\* line 48: browser.pages[0] or browser.new_page()
GetPage(p) ==
    /\ pc[p] = "getpage"
    /\ Logs(p, "page")
    /\ Goes(p, "goto")
    /\ UNCHANGED <<browserOpen, pending, elapsed, exitCode, sessionFile, skipMarkers>>
    /\ UNCHANGED lockVars

\* line 48: new_page() raises; the statement is outside the try, so neither
\* the handler nor the finally runs
GetPageFail(p) ==
    /\ pc[p] = "getpage"
    /\ Exit(p, 1)
    /\ UNCHANGED <<pending, elapsed, log, sessionFile, skipMarkers>>
    /\ UNCHANGED lockVars

\* line 52: page.goto returns
Goto(p) ==
    /\ pc[p] = "goto"
    /\ Logs(p, "goto")
    /\ Goes(p, "input")
    /\ UNCHANGED <<browserOpen, pending, elapsed, exitCode, sessionFile, skipMarkers>>
    /\ UNCHANGED lockVars

\* page.goto raises but the flow carries on to the prompt
GotoFailIgnored(p) ==
    /\ pc[p] = "goto"
    /\ Goes(p, "input")
    /\ UNCHANGED <<browserOpen, pending, elapsed, log, exitCode, sessionFile, skipMarkers>>
    /\ UNCHANGED lockVars

\* line 52: page.goto raises (error or the 30 s timeout)
GotoFail(p) ==
    /\ pc[p] = "goto"
    /\ Goes(p, "except")
    /\ UNCHANGED <<browserOpen, pending, elapsed, log, exitCode, sessionFile, skipMarkers>>
    /\ UNCHANGED lockVars

\* line 64: one more checkpoint interval passes while input() blocks
Tick(p) ==
    /\ pc[p] = "input"
    /\ elapsed[p] < MaxElapsed
    /\ elapsed' = [elapsed EXCEPT ![p] = @ + 1]
    /\ UNCHANGED <<pc, browserOpen, pending, log, exitCode, sessionFile, skipMarkers>>
    /\ UNCHANGED lockVars

\* line 64: the user presses ENTER
Enter(p) ==
    /\ pc[p] = "input"
    /\ Logs(p, "enter")
    /\ Goes(p, "save")
    /\ UNCHANGED <<browserOpen, pending, elapsed, exitCode, sessionFile, skipMarkers>>
    /\ UNCHANGED lockVars

\* line 64: stdin is at end of file; EOFError is an Exception
InputEOF(p) ==
    /\ pc[p] = "input"
    /\ Goes(p, "except")
    /\ UNCHANGED <<browserOpen, pending, elapsed, log, exitCode, sessionFile, skipMarkers>>
    /\ UNCHANGED lockVars

\* line 64: Ctrl-C; KeyboardInterrupt is not an Exception, so line 78 does
\* not catch it and only the finally runs
Interrupt(p) ==
    /\ pc[p] = "input"
    /\ pending' = [pending EXCEPT ![p] = "KeyboardInterrupt"]
    /\ Goes(p, "finally")
    /\ UNCHANGED <<browserOpen, elapsed, log, exitCode, sessionFile, skipMarkers>>
    /\ UNCHANGED lockVars

\* line 67: the state is exported and storage_state.json is opened for
\* writing at its final path, which truncates it
SaveOpen(p) ==
    /\ pc[p] = "save"
    /\ sessionFile' = Partial(p)
    /\ Logs(p, "open")
    /\ Goes(p, "writing")
    /\ UNCHANGED <<browserOpen, pending, elapsed, exitCode, skipMarkers>>
    /\ UNCHANGED lockVars

\* line 67: exporting the state raises before the file is touched
SaveExportFail(p) ==
    /\ pc[p] = "save"
    /\ Goes(p, "except")
    /\ UNCHANGED <<browserOpen, pending, elapsed, log, exitCode, sessionFile, skipMarkers>>
    /\ UNCHANGED lockVars

\* line 67: the document is written out completely
SaveWrite(p) ==
    /\ pc[p] = "writing"
    /\ sessionFile' = Complete(p)
    /\ Logs(p, "written")
    /\ Goes(p, "chmod")
    /\ UNCHANGED <<browserOpen, pending, elapsed, exitCode, skipMarkers>>
    /\ UNCHANGED lockVars

\* line 67: the write raises part way (disk full, I/O error)
SaveWriteFail(p) ==
    /\ pc[p] = "writing"
    /\ Goes(p, "except")
    /\ UNCHANGED <<browserOpen, pending, elapsed, log, exitCode, sessionFile, skipMarkers>>
    /\ UNCHANGED lockVars

\* line 68: storage_state.chmod(0o600)
Chmod(p) ==
    /\ pc[p] = "chmod"
    /\ Logs(p, "chmod")
    /\ Goes(p, "report")
    /\ UNCHANGED <<browserOpen, pending, elapsed, exitCode, sessionFile, skipMarkers>>
    /\ UNCHANGED lockVars

\* line 68: chmod raises
ChmodFail(p) ==
    /\ pc[p] = "chmod"
    /\ Goes(p, "except")
    /\ UNCHANGED <<browserOpen, pending, elapsed, log, exitCode, sessionFile, skipMarkers>>
    /\ UNCHANGED lockVars

\* lines 70-76: the 'session saved' message
Report(p) ==
    /\ pc[p] = "report"
    /\ Logs(p, "saved")
    /\ Goes(p, "finally")
    /\ UNCHANGED <<browserOpen, pending, elapsed, exitCode, sessionFile, skipMarkers>>
    /\ UNCHANGED lockVars

\* lines 78-79: except Exception prints the error and swallows it
Handler(p) ==
    /\ pc[p] = "except"
    /\ Logs(p, "error")
    /\ Goes(p, "finally")
    /\ UNCHANGED <<browserOpen, pending, elapsed, exitCode, sessionFile, skipMarkers>>
    /\ UNCHANGED lockVars

\* lines 80-90: browser.close() returns; a pending KeyboardInterrupt then
\* propagates out of main(), otherwise main() returns normally
Close(p) ==
    /\ pc[p] = "finally"
    /\ Logs(p, "close")
    /\ Exit(p, IF pending[p] = "KeyboardInterrupt" THEN 130 ELSE 0)
    /\ UNCHANGED <<pending, elapsed, sessionFile, skipMarkers>>
    /\ UNCHANGED lockVars

\* line 81: browser.close() itself raises; nothing catches it
CloseFail(p) ==
    /\ pc[p] = "finally"
    /\ Logs(p, "close")
    /\ Exit(p, 1)
    /\ UNCHANGED <<pending, elapsed, sessionFile, skipMarkers>>
    /\ UNCHANGED lockVars

Next ==
    \E p \in Procs :
        \/ Setup(p) \/ SetupFail(p)
        \/ Launch(p) \/ LaunchFail(p)
        \/ GetPage(p) \/ GetPageFail(p)
        \/ Goto(p) \/ GotoFail(p)
        \/ Tick(p) \/ Enter(p) \/ InputEOF(p) \/ Interrupt(p)
        \/ SaveOpen(p) \/ SaveExportFail(p)
        \/ SaveWrite(p) \/ SaveWriteFail(p)
        \/ Chmod(p) \/ ChmodFail(p)
        \/ Report(p) \/ Handler(p)
        \/ Close(p) \/ CloseFail(p)

Spec == Init /\ [][Next]_vars

\* ------------------------------------------------------------ Lock Store
\* (spec.md section 4.1; the Lock Store is not part of src/)

Marker(n, p) == [name |-> n, owner |-> p]

\* Creation of the marker file without exclusivity: the file is created or
\* overwritten and the call always reports success.
CreateTruncating(n, p) ==
    [ok |-> TRUE, dir |-> {m \in markers : m.name # n} \cup {Marker(n, p)}]

\* Atomic, exclusive creation of the marker file: of all attempts on an
\* absent marker exactly one creates it; an existing marker is left alone.
CreateExclusive(n, p) ==
    IF Held(n)
    THEN [ok |-> FALSE, dir |-> markers]
    ELSE [ok |-> TRUE, dir |-> markers \cup {Marker(n, p)}]

\* acquire(name, requester) -> bool
acquire(n, p) ==
    LET r == CreateExclusive(n, p) IN
    /\ markers' = r.dir
    /\ last' = [op |-> "acquire", proc |-> p, name |-> n, existed |-> Held(n), ret |-> r.ok]
    /\ wins' = IF r.ok THEN [wins EXCEPT ![n] = @ + 1] ELSE wins
    /\ lost' = IF r.ok THEN lost ELSE [lost EXCEPT ![p] = @ \cup {n}]
    /\ UNCHANGED loginVars

\* release(name) -> bool: removes the marker if present, whoever owns it
release(n, p) ==
    /\ markers' = {m \in markers : m.name # n}
    /\ last' = [op |-> "release", proc |-> p, name |-> n, existed |-> Held(n), ret |-> Held(n)]
    /\ wins' = [wins EXCEPT ![n] = 0]
    /\ UNCHANGED lost
    /\ UNCHANGED loginVars

LockNext ==
    \E p \in Procs : \E n \in LockNames :
        \/ acquire(n, p)
        \/ release(n, p)

LockSpec == Init /\ [][LockNext]_vars

\* ============================================================ claims

\* C1: at no time do two processes have a persistent browser session open on
\* the shared profile; a process has the browser open on the profile only
\* while it holds the global lock.
C1_ProfileGuardedByLock ==
    /\ \A p \in Procs : browserOpen[p] => Holder(BrowserLock) = {p}
    /\ \A p, q \in Procs : (browserOpen[p] /\ browserOpen[q]) => p = q

\* C2: acquire(name) returns true iff no marker for the name existed at the
\* instant of the call, the marker then names the caller as owner, a held
\* name has exactly one marker, and between two releases of a name at most
\* one acquire returned true.
C2_AcquireExclusive ==
    /\ last.op = "acquire" => (last.ret <=> ~last.existed)
    /\ (last.op = "acquire" /\ last.ret) => Holder(last.name) = {last.proc}
    /\ \A n \in LockNames : wins[n] <= 1
    /\ \A n \in LockNames : Cardinality({m \in markers : m.name = n}) <= 1
    /\ \A n \in LockNames : Held(n) <=> wins[n] = 1

\* C2 witness: a process whose earlier acquire of a name returned false has,
\* after a release, acquired that name
C2_LoserLaterWins ==
    \E p \in Procs : \E n \in lost[p] :
        /\ last = [op |-> "acquire", proc |-> p, name |-> n, existed |-> FALSE, ret |-> TRUE]
        /\ Holder(n) = {p}

\* C4: the wait for the user is bounded by the per-attempt timeout: no
\* process is still blocked in the interactive wait after the timeout.
C4_WaitBoundedByTimeout ==
    \A p \in Procs : pc[p] = "input" => elapsed[p] <= TimeoutTicks

\* C5: a session that stayed open for at least one checkpoint interval has
\* a persisted snapshot written by it.
C5_CheckpointEveryInterval ==
    \A p \in Procs : (Has(p, "goto") /\ elapsed[p] >= 1) => Has(p, "written")

\* C6: a run ends with exit code 0 only when the login succeeded (the
\* session was saved); a run in which navigation or saving failed or the
\* login was not completed does not end with exit code 0.
C6_ExitZeroOnlyOnSuccess ==
    \A p \in Procs : (pc[p] = "done" /\ exitCode[p] = 0) => Has(p, "saved")

\* C7: a reader of the session-state file never observes a partially
\* written document.
C7_NeverPartial ==
    sessionFile.state # "partial"

\* C8: a run performs at most MaxAttempts interactive attempts, and a run
\* that ends without a successful login has used all of them, has written
\* the skip marker of the domain and ends with exit code 2.
C8_RetryThenSkip ==
    \A p \in Procs :
        /\ Count(p, "page") <= MaxAttempts
        /\ (pc[p] = "done" /\ Has(p, "page") /\ ~Has(p, "saved")) =>
              /\ Count(p, "page") = MaxAttempts
              /\ Domain \in skipMarkers
              /\ exitCode[p] = 2

\* C9: once launch_persistent_context has returned, browser.close() has
\* been called exactly once when the process ends.
C9_ClosedExactlyOnce ==
    \A p \in Procs :
        (pc[p] = "done" /\ Has(p, "launch")) => Count(p, "close") = 1

\* C10: the session-state file is opened for writing only after page.goto
\* succeeded and then the user confirmed with ENTER; a process whose
\* navigation failed or whose wait was interrupted never is the writer of
\* the file; 'session saved' is printed only after the write and then the
\* chmod succeeded.
C10_WriteOnlyAfterGotoAndEnter ==
    \A p \in Procs :
        /\ Has(p, "open") => (Before(p, "goto", "enter") /\ Before(p, "enter", "open"))
        /\ ~(Has(p, "goto") /\ Has(p, "enter")) =>
              (sessionFile.writer # p /\ ~Has(p, "open"))
        /\ Has(p, "saved") =>
              (Before(p, "open", "written") /\ Before(p, "written", "chmod")
               /\ Before(p, "chmod", "saved"))

\* C10 witness: one process saved the session and reported it, another ended
\* without the user's confirmation, and the file is the first one's snapshot
C10_SavedAndUntouched ==
    \E p, q \in Procs :
        /\ p # q
        /\ pc[p] = "done" /\ Has(p, "saved") /\ sessionFile = Complete(p)
        /\ pc[q] = "done" /\ Has(q, "launch") /\ ~Has(q, "enter")
====
